---- MODULE Spec2Model ----
(***************************************************************************)
(* Hospital operating-room scheduler (AppleMango-P2-DevCon).               *)
(*                                                                         *)
(* The module models                                                       *)
(*   - the constraint engine and the allocator of lib/scheduler            *)
(*     (checkConstraints, findBestSlot) as operators,                      *)
(*   - the server actions of app/actions/surgery (scheduleSurgery,         *)
(*     updateSurgeryStatus, approveSurgery, deleteSurgery) as steps over   *)
(*     the surgeries and schedule_slots tables,                            *)
(*   - the drag-and-drop flow of the schedule view and the buttons of the  *)
(*     priority-queue view as the clients of those actions.                *)
(*                                                                         *)
(* Times are minutes; minute 0 is local midnight of the selected date.     *)
(***************************************************************************)
EXTENDS Integers, Sequences, FiniteSets, TLC

VARIABLES
  revision,       \* which copy of the server actions is deployed
  surgeries,      \* table surgeries: id -> row
  slots,          \* table schedule_slots: rows in insertion order
  notifications,  \* table notifications: the titles of the rows
  view,           \* per browser: the props the schedule page was rendered with
  call,           \* per browser: the scheduleSurgery invocation in flight
  drops,          \* number of drops that invoked scheduleSurgery so far
  args,           \* scheduler probe: arguments of the call
  result          \* value returned by the last call of a function or action

vars == <<revision, surgeries, slots, notifications, view, call, drops, args, result>>

orchVars == <<revision, surgeries, slots, notifications, view, call, drops>>
probeVars == <<args, result>>

(***************************************************************************)
(* Program constants                                                       *)
(***************************************************************************)
SetupMin == 15
CleanupMin == 15
DayStartHour == 7
DayEndHour == 20
OvertimeHour == 18
EarlyHour == 7
IdleGapMin == 60
SurgeonLimitHours == 12
HardPenalty == 25
SoftPenalty == 5
GANTT_START_HOUR == 7

NoSpec == "none"
NoSurgeon == [id |-> 0]
NoSlot == [found |-> FALSE]

Max(a, b) == IF a > b THEN a ELSE b

\* Date.getHours() of a time given in minutes
getHours(t) == (t \div 60) % 24

RECURSIVE SumSeq(_)
SumSeq(s) == IF s = <<>> THEN 0 ELSE Head(s) + SumSeq(Tail(s))

RECURSIVE MaxEnd(_)
MaxEnd(s) ==
  IF Len(s) = 1 THEN s[1].end_time ELSE Max(s[1].end_time, MaxEnd(Tail(s)))

Tags(n, tag) == [i \in 1..n |-> tag]

(***************************************************************************)
(* checkConstraints                                                        *)
(***************************************************************************)
\* a closed-interval test: windows that touch would conflict
SlotOverlaps_closed(proposedStart, proposedEnd, slot) ==
  proposedStart <= slot.end_time /\ proposedEnd >= slot.start_time

\* the half-open interval test of the overlap rule
SlotOverlaps(proposedStart, proposedEnd, slot) ==
  proposedStart < slot.end_time /\ proposedEnd > slot.start_time

OrSlots(proposedOR, existingSlots) ==
  SelectSeq(existingSlots, LAMBDA s : s.or_id = proposedOR.id)

\* one violation per slot of the room that intersects the window
\* the loop stops at the first overlapping slot: one violation at most
OverlapViolations_once(proposedOR, proposedStart, proposedEnd, existingSlots) ==
  IF \E i \in 1..Len(existingSlots) :
        /\ existingSlots[i].or_id = proposedOR.id
        /\ SlotOverlaps(proposedStart, proposedEnd, existingSlots[i])
    THEN <<"no_overlap">> ELSE <<>>

OverlapViolations(proposedOR, proposedStart, proposedEnd, existingSlots) ==
  Tags(Len(SelectSeq(OrSlots(proposedOR, existingSlots),
                     LAMBDA s : SlotOverlaps(proposedStart, proposedEnd, s))),
       "no_overlap")

CapabilityViolations(surgery, proposedOR) ==
  IF /\ surgery.specialization_required # NoSpec
     /\ proposedOR.room_type # "general"
     /\ surgery.specialization_required \notin proposedOR.capabilities
     /\ proposedOR.room_type # surgery.specialization_required
  THEN <<"or_capability">> ELSE <<>>

SurgeonSpecViolations(surgery, surgeon) ==
  IF /\ surgeon # NoSurgeon
     /\ surgery.specialization_required # NoSpec
     /\ surgeon.specialization # surgery.specialization_required
  THEN <<"surgeon_specialization">> ELSE <<>>

SurgeonMinutes(surgeon, existingSlots) ==
  LET surgeonSlots == SelectSeq(existingSlots, LAMBDA s : s.surgeon_id = surgeon.id)
  IN SumSeq([i \in 1..Len(surgeonSlots) |->
               surgeonSlots[i].end_time - surgeonSlots[i].start_time])

SurgeonHoursViolations(surgeon, proposedStart, proposedEnd, existingSlots) ==
  IF /\ surgeon # NoSurgeon
     /\ SurgeonMinutes(surgeon, existingSlots) + (proposedEnd - proposedStart)
          > SurgeonLimitHours * 60
  THEN <<"surgeon_hours">> ELSE <<>>

RECURSIVE EquipmentViolations(_)
EquipmentViolations(equipmentList) ==
  IF equipmentList = <<>> THEN <<>>
  ELSE LET eq == Head(equipmentList)
       IN (IF eq.status \in {"maintenance", "retired"}
             THEN <<"equipment_unavailable">> ELSE <<>>)
          \o (IF eq.status = "sterilizing"
               THEN <<"equipment_sterilizing">> ELSE <<>>)
          \o EquipmentViolations(Tail(equipmentList))

SoftViolations(proposedOR, proposedStart, proposedEnd, existingSlots) ==
  LET orSlots == OrSlots(proposedOR, existingSlots)
  IN (IF getHours(proposedEnd) >= OvertimeHour THEN <<"overtime">> ELSE <<>>)
     \o (IF getHours(proposedStart) < EarlyHour THEN <<"early_morning">> ELSE <<>>)
     \o (IF Len(orSlots) > 0 /\ proposedStart - MaxEnd(orSlots) > IdleGapMin
           THEN <<"idle_gap">> ELSE <<>>)

checkConstraints(surgery, proposedOR, proposedStart, proposedEnd, existingSlots, surgeon, equipmentList) ==
  LET hardViolations ==
        OverlapViolations(proposedOR, proposedStart, proposedEnd, existingSlots)
        \o CapabilityViolations(surgery, proposedOR)
        \o SurgeonSpecViolations(surgery, surgeon)
        \o SurgeonHoursViolations(surgeon, proposedStart, proposedEnd, existingSlots)
        \o EquipmentViolations(equipmentList)
      softViolations ==
        SoftViolations(proposedOR, proposedStart, proposedEnd, existingSlots)
  IN [hasConflict    |-> Len(hardViolations) > 0,
      hardViolations |-> hardViolations,
      softViolations |-> softViolations,
      score          |-> Max(0, 100 - Len(hardViolations) * HardPenalty
                                    - Len(softViolations) * SoftPenalty)]

(***************************************************************************)
(* findBestSlot                                                            *)
(***************************************************************************)
\* Array.prototype.sort with the comparator a.start_time - b.start_time
\* (stable): insert x behind the elements that do not start later
RECURSIVE InsertByStart(_, _)
InsertByStart(x, sorted) ==
  IF sorted = <<>> THEN <<x>>
  ELSE IF Head(sorted).start_time <= x.start_time
       THEN <<Head(sorted)>> \o InsertByStart(x, Tail(sorted))
       ELSE <<x>> \o sorted

RECURSIVE SortByStart(_)
SortByStart(s) ==
  IF s = <<>> THEN <<>>
  ELSE InsertByStart(s[Len(s)], SortByStart(SubSeq(s, 1, Len(s) - 1)))

\* the room filter at the head of the loop over rooms
RoomTypeCompatible(surgery, room) ==
  ~ (/\ surgery.specialization_required # NoSpec
     /\ room.room_type # "general"
     /\ room.room_type # surgery.specialization_required)

\* the gap test with its operands exchanged: no gap before a slot fits
GapFits_reversed(slotStart, searchTime, totalMin) ==
  searchTime - slotStart >= totalMin

\* the gap test of the loop over the room's slots
GapFits(slotStart, searchTime, totalMin) == slotStart - searchTime >= totalMin

\* the search time jumps to the end of the slot even when an earlier,
\* longer slot ends later
NextSearchTime_noMax(searchTime, slotEnd) == slotEnd

\* the search time behind a slot that leaves no gap
NextSearchTime(searchTime, slotEnd) == Max(searchTime, slotEnd)

\* the loop over the sorted slots of one room: the search time at which a
\* gap was found, or the search time after the last slot
RECURSIVE ScanGaps(_, _, _, _)
ScanGaps(roomSlots, i, searchTime, totalMin) ==
  IF i > Len(roomSlots) THEN [found |-> FALSE, searchTime |-> searchTime]
  ELSE IF GapFits(roomSlots[i].start_time, searchTime, totalMin)
       THEN [found |-> TRUE, searchTime |-> searchTime]
       ELSE ScanGaps(roomSlots, i + 1,
                     NextSearchTime(searchTime, roomSlots[i].end_time), totalMin)

Placement(room, searchTime, durationMin) ==
  [found |-> TRUE, or |-> room,
   start |-> searchTime + SetupMin,
   end   |-> searchTime + SetupMin + durationMin]

RECURSIVE TryRooms(_, _, _, _, _)
TryRooms(surgery, rooms, r, existingSlots, startDate) ==
  IF r > Len(rooms) THEN NoSlot
  ELSE
    LET room        == rooms[r]
        durationMin == surgery.estimated_duration
        totalMin    == SetupMin + durationMin + CleanupMin
        dayStart    == startDate * 1440 + DayStartHour * 60
        dayEnd      == startDate * 1440 + DayEndHour * 60
        roomSlots   == SortByStart(SelectSeq(existingSlots,
                                             LAMBDA s : s.or_id = room.id))
        scan        == ScanGaps(roomSlots, 1, dayStart, totalMin)
    IN IF ~ RoomTypeCompatible(surgery, room)
         THEN TryRooms(surgery, rooms, r + 1, existingSlots, startDate)
       ELSE IF scan.found
         THEN Placement(room, scan.searchTime, durationMin)
       ELSE IF scan.searchTime + totalMin <= dayEnd
         THEN Placement(room, scan.searchTime, durationMin)
       ELSE TryRooms(surgery, rooms, r + 1, existingSlots, startDate)

\* startDate is the index of the day; day 0 starts at minute 0
findBestSlot(surgery, rooms, existingSlots, startDate) ==
  TryRooms(surgery, rooms, 1, existingSlots, startDate)

(***************************************************************************)
(* Scheduler probe: checkConstraints and findBestSlot applied to bounded   *)
(* inputs                                                                  *)
(***************************************************************************)
MaxCheckSlots == 2
MaxFindSlots == 2

SeqsUpTo(S, n) == UNION {[1..k -> S] : k \in 0..n}

Specializations == {NoSpec, "general", "cardiac"}

Rooms ==
  <<[id |-> 1, room_type |-> "general", capabilities |-> {"general"},
     status |-> "available"],
    [id |-> 2, room_type |-> "neuro", capabilities |-> {"neuro", "cardiac"},
     status |-> "maintenance"]>>

RoomLists ==
  {Rooms, <<Rooms[2], Rooms[1]>>, <<Rooms[1]>>}

ProbeSurgeons ==
  {NoSurgeon,
   [id |-> 1, specialization |-> "general", max_hours_per_day |-> 12],
   [id |-> 2, specialization |-> "cardiac", max_hours_per_day |-> 10]}

ProbeEquipment ==
  {<<>>, <<[status |-> "available"]>>,
   <<[status |-> "sterilizing"], [status |-> "maintenance"]>>}

\* 10:00, 10:59, 11:00, 12:00
CheckTimes == {600, 659, 660, 720}
\* 06:00, 07:00, 08:30, 18:30, 20:00, 21:30, 23:00
FindTimes == {360, 420, 510, 1110, 1200, 1290, 1380}

Windows(T) == {w \in T \X T : w[1] < w[2]}

ProbeSlots(T) ==
  {[surgery_id |-> 9, or_id |-> o, start_time |-> w[1], end_time |-> w[2],
    slot_type |-> "surgery", surgeon_id |-> 1] : o \in {1, 2}, w \in Windows(T)}

ProbeSurgery(spec, duration) ==
  [id |-> 1, specialization_required |-> spec, estimated_duration |-> duration]

\* long slots of the two surgeons, in room 2: 07:00-12:30, 12:30-18:00,
\* 07:00-11:00 and 11:00-16:00
MaxHoursSlots == 2

HoursSlots ==
  {[surgery_id |-> 9, or_id |-> 2, start_time |-> w[1], end_time |-> w[2],
    slot_type |-> "surgery", surgeon_id |-> g] :
     g \in {1, 2},
     w \in {<<420, 750>>, <<750, 1080>>, <<420, 660>>, <<660, 960>>}}

\* proposed windows of 60 and 90 minutes from 18:00
HoursWindows == {<<1080, 1140>>, <<1080, 1170>>}

CheckArg(sp, o, w, ex, sg, eq) ==
  [fn |-> "checkConstraints", surgery |-> ProbeSurgery(sp, w[2] - w[1]),
   proposedOR |-> Rooms[o], proposedStart |-> w[1], proposedEnd |-> w[2],
   existingSlots |-> ex, surgeon |-> sg, equipmentList |-> eq]

FindArg(sp, rs, ex) ==
  [fn |-> "findBestSlot", surgery |-> ProbeSurgery(sp, 60), rooms |-> rs,
   existingSlots |-> ex, startDate |-> 0]

NoCall == [pc |-> "idle"]
Pending == [pending |-> TRUE]

\* the two shapes of a server action's return value
Success == [success |-> TRUE]
Failure == [error |-> TRUE]

CallCheckConstraints ==
  /\ args.fn = "checkConstraints"
  /\ result = Pending
  /\ result' = checkConstraints(args.surgery, args.proposedOR, args.proposedStart,
                                args.proposedEnd, args.existingSlots,
                                args.surgeon, args.equipmentList)
  /\ UNCHANGED <<args, orchVars>>

CallFindBestSlot ==
  /\ args.fn = "findBestSlot"
  /\ result = Pending
  /\ result' = findBestSlot(args.surgery, args.rooms, args.existingSlots,
                            args.startDate)
  /\ UNCHANGED <<args, orchVars>>

(***************************************************************************)
(* Tables, browsers and server actions                                     *)
(***************************************************************************)
MaxDrops == 2

SurgeryIds == {1, 2}
Browsers == {1, 2}
Clients == DOMAIN view
RoomIds == {Rooms[i].id : i \in 1..Len(Rooms)}
DropHours == {GANTT_START_HOUR, GANTT_START_HOUR + 1}

Statuses == {"pending", "approved", "scheduled", "in_progress", "completed",
             "cancelled", "rescheduled"}
Roles == {"admin", "manager", "surgeon", "scheduler", "nurse"}
NoUser == "anonymous"
Users == Roles \cup {NoUser}
Revisions == {"app/actions/surgery.ts", "unnamed/part_019"}

NullId == 0
NullTime == 0 - 1

canApproveSurgery(role) == role \in {"admin", "manager"}
canScheduleSurgery(role) == role \in {"admin", "manager", "scheduler"}

RoomById(orId) == CHOOSE r \in {Rooms[i] : i \in 1..Len(Rooms)} : r.id = orId

\* the row createSurgery inserts: status and approval_status pending; the
\* duration is the number typed into the form (parseInt(...) || 60), which
\* may be negative (surgery 6)
NewSurgery(id) ==
  [id |-> id,
   status |-> "pending", approval_status |-> "pending",
   priority |-> "elective",
   specialization_required |-> IF id % 2 = 1 THEN "general" ELSE "cardiac",
   estimated_duration |-> CASE id = 3 -> 90
                            [] id = 6 -> -30
                            [] id > 3 /\ id # 6 -> 300
                            [] id % 2 = 1 -> 45
                            [] OTHER -> 60,
   surgeon_id |-> IF id >= 3 THEN 1 ELSE NullId,
   or_id |-> NullId, scheduled_start |-> NullTime, scheduled_end |-> NullTime]

SlotsOf(id, rows) == SelectSeq(rows, LAMBDA s : s.surgery_id = id)
SlotsNotOf(id, rows) == SelectSeq(rows, LAMBDA s : s.surgery_id # id)

\* the three rows scheduleSurgery builds from its arguments
NewSlots(surgeryId, orId, startTime, endTime) ==
  <<[surgery_id |-> surgeryId, or_id |-> orId,
     start_time |-> startTime - SetupMin, end_time |-> startTime,
     slot_type |-> "setup"],
    [surgery_id |-> surgeryId, or_id |-> orId,
     start_time |-> startTime, end_time |-> endTime,
     slot_type |-> "surgery"],
    [surgery_id |-> surgeryId, or_id |-> orId,
     start_time |-> endTime, end_time |-> endTime + CleanupMin,
     slot_type |-> "cleanup"]>>

\* schedule_slots has no order of its own; the rows are kept in the order
\* of (start_time, or_id, surgery_id)
RowBefore(a, b) ==
  \/ a.start_time < b.start_time
  \/ a.start_time = b.start_time /\ a.or_id < b.or_id
  \/ a.start_time = b.start_time /\ a.or_id = b.or_id /\ a.surgery_id <= b.surgery_id

RECURSIVE InsertRow(_, _)
InsertRow(x, rows) ==
  IF rows = <<>> THEN <<x>>
  ELSE IF RowBefore(Head(rows), x)
       THEN <<Head(rows)>> \o InsertRow(x, Tail(rows))
       ELSE <<x>> \o rows

RECURSIVE InsertRows(_, _)
InsertRows(new, rows) ==
  IF new = <<>> THEN rows
  ELSE InsertRows(Tail(new), InsertRow(Head(new), rows))

\* the props of the schedule view: the day's slots and the approved
\* surgeries
PageProps(rows, table) ==
  [slots |-> rows,
   unscheduled |-> {id \in DOMAIN table : table[id].status = "approved"}]

\* the schedule page is loaded or refreshed: it fetches the slots and the
\* approved surgeries and renders the view with them
Refresh(c) ==
  /\ view' = [view EXCEPT ![c] = PageProps(slots, surgeries)]
  /\ UNCHANGED <<revision, surgeries, slots, notifications, call, drops, probeVars>>

\* the surgeries a browser can drag: a card of the unscheduled list
\* (dragFromSlot = null) or a surgery block of the timeline
Draggable(c, fromSlot) ==
  IF fromSlot
    THEN {view[c].slots[i].surgery_id :
            i \in {j \in 1..Len(view[c].slots) :
                     view[c].slots[j].slot_type = "surgery"}}
    ELSE view[c].unscheduled

\* the slots handleDrop validates against
FilteredSlots(c, id, fromSlot) ==
  IF fromSlot THEN SlotsNotOf(id, view[c].slots) ELSE view[c].slots

DropCheck(c, id, fromSlot, orId, hour) ==
  checkConstraints(NewSurgery(id), RoomById(orId), hour * 60,
                   hour * 60 + NewSurgery(id).estimated_duration,
                   FilteredSlots(c, id, fromSlot), NoSurgeon, <<>>)

\* handleDrop: validate against the rendered slots, then invoke the server
\* action; a hard violation only shows a toast.  The invocation remembers
\* the surgery's row and slots at the time of the drop (before), which the
\* properties of a failed Place refer to.
handleDrop(c, id, fromSlot, orId, hour) ==
  /\ call[c] = NoCall
  /\ drops < MaxDrops
  /\ id \in Draggable(c, fromSlot)
  /\ ~ DropCheck(c, id, fromSlot, orId, hour).hasConflict
  /\ call' = [call EXCEPT ![c] =
                [pc |-> "update", surgeryId |-> id, orId |-> orId,
                 startTime |-> hour * 60,
                 endTime |-> hour * 60 + NewSurgery(id).estimated_duration,
                 surgery |-> FALSE,
                 before |-> [row |-> surgeries[id], slots |-> SlotsOf(id, slots)]]]
  /\ drops' = drops + 1
  /\ UNCHANGED <<revision, surgeries, slots, notifications, view, probeVars>>

\* scheduleSurgery up to the update of the surgery row: authentication,
\* role check, read of the surgery for the notification, update
scheduleSurgery_update(c, user, ok) ==
  /\ call[c].pc = "update"
  /\ IF user = NoUser \/ ~ canScheduleSurgery(user) \/ ~ ok
       THEN /\ call' = [call EXCEPT ![c] = NoCall]
            /\ result' = Failure
            /\ UNCHANGED surgeries
       ELSE /\ surgeries' =
                 IF call[c].surgeryId \in DOMAIN surgeries
                   THEN [surgeries EXCEPT ![call[c].surgeryId] =
                           [@ EXCEPT !.or_id = call[c].orId,
                                     !.scheduled_start = call[c].startTime,
                                     !.scheduled_end = call[c].endTime,
                                     !.status = "scheduled"]]
                   ELSE surgeries
            /\ call' = [call EXCEPT ![c] =
                          [@ EXCEPT !.pc = IF revision = "unnamed/part_019"
                                             THEN "delete" ELSE "insert",
                                    !.surgery = call[c].surgeryId \in DOMAIN surgeries]]
            /\ UNCHANGED result
  /\ UNCHANGED <<revision, slots, notifications, view, drops, args>>

\* the copy in part_019 deletes the surgery's old slots; the result of the
\* delete is not inspected
scheduleSurgery_delete(c, ok) ==
  /\ call[c].pc = "delete"
  /\ slots' = IF ok THEN SlotsNotOf(call[c].surgeryId, slots) ELSE slots
  /\ call' = [call EXCEPT ![c] = [@ EXCEPT !.pc = "insert"]]
  /\ UNCHANGED <<revision, surgeries, notifications, view, drops, probeVars>>

\* a scheduleSurgery that treats a failed notification insert as a failed
\* placement: it removes the slots again and returns the error
scheduleSurgery_insert_rollback(c, ok, okNotify) ==
  /\ call[c].pc = "insert"
  /\ IF ok /\ okNotify /\ call[c].surgeryId \in DOMAIN surgeries
       THEN /\ slots' = InsertRows(NewSlots(call[c].surgeryId, call[c].orId,
                                               call[c].startTime, call[c].endTime),
                                      slots)
            /\ notifications' = notifications \cup {"Surgery Scheduled"}
            /\ view' = [view EXCEPT ![c] = PageProps(slots', surgeries)]
            /\ result' = Success
       ELSE /\ result' = Failure
            /\ UNCHANGED <<slots, notifications, view>>
  /\ call' = [call EXCEPT ![c] = NoCall]
  /\ UNCHANGED <<revision, surgeries, drops, args>>

\* insert of the three slots (the foreign key needs the surgery row), then
\* the notification, whose result is not inspected; on success the browser
\* refreshes the page (router.refresh), on an error it shows a toast
scheduleSurgery_insert(c, ok, okNotify) ==
  /\ call[c].pc = "insert"
  /\ IF ok /\ call[c].surgeryId \in DOMAIN surgeries
       THEN /\ slots' = InsertRows(NewSlots(call[c].surgeryId, call[c].orId,
                                               call[c].startTime, call[c].endTime),
                                      slots)
            /\ notifications' =
                 IF call[c].surgery /\ okNotify
                   THEN notifications \cup {"Surgery Scheduled"}
                   ELSE notifications
            /\ view' = [view EXCEPT ![c] = PageProps(slots', surgeries)]
            /\ result' = Success
       ELSE /\ result' = Failure
            /\ UNCHANGED <<slots, notifications, view>>
  /\ call' = [call EXCEPT ![c] = NoCall]
  /\ UNCHANGED <<revision, surgeries, drops, args>>

updateSurgeryStatus(id, status, user, ok) ==
  /\ surgeries' =
       IF user # NoUser /\ ok /\ id \in DOMAIN surgeries
         THEN [surgeries EXCEPT ![id] = [@ EXCEPT !.status = status]]
         ELSE surgeries
  /\ result' = IF user # NoUser /\ ok THEN Success ELSE Failure
  /\ UNCHANGED <<revision, slots, notifications, view, call, drops, args>>

\* "Schedule Now" of the priority queue, shown for approved surgeries
handleSchedule(id, user, ok) ==
  /\ id \in DOMAIN surgeries
  /\ surgeries[id].status = "approved"
  /\ updateSurgeryStatus(id, "scheduled", user, ok)

\* "Escalate" of the priority queue, shown for active surgeries below
\* emergency whose wait exceeds the limit of their tier
handleEscalate(id, user, ok) ==
  /\ id \in DOMAIN surgeries
  /\ surgeries[id].status \notin {"completed", "cancelled"}
  /\ surgeries[id].priority # "emergency"
  /\ updateSurgeryStatus(id, "approved", user, ok)

approveSurgery(id, approved, user, ok, okNotify) ==
  /\ IF user # NoUser /\ canApproveSurgery(user) /\ ok /\ id \in DOMAIN surgeries
       THEN /\ surgeries' = [surgeries EXCEPT ![id] =
                 [@ EXCEPT !.approval_status = IF approved THEN "approved" ELSE "rejected",
                           !.status = IF approved THEN "approved" ELSE "cancelled"]]
            /\ notifications' =
                 IF okNotify
                   THEN notifications \cup
                          {IF approved THEN "Surgery Approved" ELSE "Surgery Rejected"}
                   ELSE notifications
       ELSE UNCHANGED <<surgeries, notifications>>
  /\ result' = IF user # NoUser /\ canApproveSurgery(user) /\ ok
                 THEN Success ELSE Failure
  /\ UNCHANGED <<revision, slots, view, call, drops, args>>

\* delete of the slots (result not inspected), then of the surgery row;
\* schedule_slots.surgery_id is declared ON DELETE CASCADE
deleteSurgery(id, user, okSlots, ok) ==
  /\ IF user # NoUser /\ canApproveSurgery(user)
       THEN /\ slots' = IF okSlots \/ ok
                          THEN SlotsNotOf(id, slots) ELSE slots
            /\ surgeries' = IF ok
                              THEN [i \in DOMAIN surgeries \ {id} |-> surgeries[i]]
                              ELSE surgeries
       ELSE UNCHANGED <<surgeries, slots>>
  /\ result' = IF user # NoUser /\ canApproveSurgery(user) /\ ok
                 THEN Success ELSE Failure
  /\ UNCHANGED <<revision, notifications, view, call, drops, args>>

\* the population seedDemoData leaves behind: surgeries that are approved
\* and wait for a slot
ApprovedSurgery(id) ==
  [NewSurgery(id) EXCEPT !.status = "approved", !.approval_status = "approved"]

\* the scheduled surgery of the seed and the three slots created for it in
\* the first room
SeedStart == 540
ScheduledSurgery(id) ==
  [ApprovedSurgery(id) EXCEPT !.status = "scheduled",
                              !.scheduled_start = SeedStart,
                              !.scheduled_end = SeedStart + NewSurgery(id).estimated_duration]
SeedSlots(id) ==
  NewSlots(id, Rooms[1].id, SeedStart, SeedStart + NewSurgery(id).estimated_duration)

(***************************************************************************)
(* SpecPlace: two browsers place two approved surgeries                    *)
(***************************************************************************)
InitPlace ==
  /\ revision \in Revisions
  /\ surgeries = [id \in SurgeryIds |-> ApprovedSurgery(id)]
  /\ slots = <<>>
  /\ notifications = {}
  /\ view = [c \in Browsers |-> [slots |-> <<>>, unscheduled |-> {}]]
  /\ call = [c \in Browsers |-> NoCall]
  /\ drops = 0
  /\ args = Pending
  /\ result = Pending

NextPlace ==
  \/ \E c \in Clients : Refresh(c)
  \/ \E c \in Clients, id \in SurgeryIds, fromSlot \in BOOLEAN,
        orId \in RoomIds, hour \in DropHours :
       handleDrop(c, id, fromSlot, orId, hour)
  \/ \E c \in Clients, user \in Users, ok \in BOOLEAN :
       scheduleSurgery_update(c, user, ok)
  \/ \E c \in Clients, ok \in BOOLEAN : scheduleSurgery_delete(c, ok)
  \/ \E c \in Clients, ok \in BOOLEAN, okNotify \in BOOLEAN :
       scheduleSurgery_insert(c, ok, okNotify)

SpecPlace == InitPlace /\ [][NextPlace]_vars

(***************************************************************************)
(* Spec: the life cycle of the surgeries of a seeded hospital              *)
(***************************************************************************)
Init ==
  /\ revision \in Revisions
  /\ surgeries = [id \in SurgeryIds |->
                    IF id = 1 THEN ScheduledSurgery(id) ELSE NewSurgery(id)]
  /\ slots = SeedSlots(1)
  /\ notifications = {}
  /\ view = <<>>
  /\ call = <<>>
  /\ drops = 0
  /\ args = Pending
  /\ result = Pending

Next ==
  \/ \E id \in SurgeryIds, status \in Statuses, user \in Users, ok \in BOOLEAN :
       updateSurgeryStatus(id, status, user, ok)
  \/ \E id \in SurgeryIds, user \in Users, ok \in BOOLEAN :
       handleSchedule(id, user, ok)
  \/ \E id \in SurgeryIds, user \in Users, ok \in BOOLEAN :
       handleEscalate(id, user, ok)
  \/ \E id \in SurgeryIds, approved \in BOOLEAN, user \in Users,
        ok \in BOOLEAN, okNotify \in BOOLEAN :
       approveSurgery(id, approved, user, ok, okNotify)
  \/ \E id \in SurgeryIds, user \in Users, okSlots \in BOOLEAN, ok \in BOOLEAN :
       deleteSurgery(id, user, okSlots, ok)

Spec == Init /\ [][Next]_vars

(***************************************************************************)
(* SpecScheduler: checkConstraints and findBestSlot on bounded inputs      *)
(***************************************************************************)
InitScheduler ==
  /\ revision = "app/actions/surgery.ts"
  /\ surgeries = <<>>
  /\ slots = <<>>
  /\ notifications = {}
  /\ view = <<>>
  /\ call = <<>>
  /\ drops = 0
  /\ \/ \E sp \in Specializations, o \in {1, 2}, w \in Windows(CheckTimes),
            ex \in SeqsUpTo(ProbeSlots(CheckTimes), MaxCheckSlots),
            sg \in ProbeSurgeons, eq \in ProbeEquipment :
          args = CheckArg(sp, o, w, ex, sg, eq)
     \/ \E w \in HoursWindows, ex \in SeqsUpTo(HoursSlots, MaxHoursSlots),
            sg \in ProbeSurgeons \ {NoSurgeon} :
          args = CheckArg("general", 1, w, ex, sg, <<>>)
     \/ \E sp \in Specializations, rs \in RoomLists,
            ex \in SeqsUpTo(ProbeSlots(FindTimes), MaxFindSlots) :
          args = FindArg(sp, rs, ex)
  /\ result = Pending

NextScheduler == CallCheckConstraints \/ CallFindBestSlot

SpecScheduler == InitScheduler /\ [][NextScheduler]_vars

(***************************************************************************)
(* Priority queue: one column of the queue view                            *)
(***************************************************************************)
MaxQueue == 3

ElectiveLimitHours == 72
UrgentLimitHours == 48

\* Math.round of the minutes since created_at in hours
getWaitHours(created_at, now) == ((now - created_at) + 30) \div 60

\* the limit itself already escalates
shouldEscalate_atLimit(surgery, now) ==
  LET hours == getWaitHours(surgery.created_at, now)
  IN \/ surgery.priority = "elective" /\ hours >= ElectiveLimitHours
     \/ surgery.priority = "urgent" /\ hours >= UrgentLimitHours

shouldEscalate(surgery, now) ==
  LET hours == getWaitHours(surgery.created_at, now)
  IN \/ surgery.priority = "elective" /\ hours > ElectiveLimitHours
     \/ surgery.priority = "urgent" /\ hours > UrgentLimitHours

\* ties the other way round: of two surgeries that wait equally long the
\* later one of the input goes first
WaitBefore_unstable(s, j, i, now) ==
  \/ getWaitHours(s[j].created_at, now) > getWaitHours(s[i].created_at, now)
  \/ /\ getWaitHours(s[j].created_at, now) = getWaitHours(s[i].created_at, now)
     /\ j > i

\* Array.prototype.sort with the comparator wait(b) - wait(a) (stable):
\* s[j] goes before s[i] when it waits longer, or equally long and stands
\* earlier in the input
WaitBefore(s, j, i, now) ==
  \/ getWaitHours(s[j].created_at, now) > getWaitHours(s[i].created_at, now)
  \/ /\ getWaitHours(s[j].created_at, now) = getWaitHours(s[i].created_at, now)
     /\ j < i

\* the sorted array: the element with p - 1 elements before it is at p
SortByWait(s, now) ==
  [p \in 1..Len(s) |->
     s[CHOOSE i \in 1..Len(s) :
         Cardinality({j \in 1..Len(s) : WaitBefore(s, j, i, now)}) = p - 1]]

\* the entries of the column: position, wait time and escalate flag of
\* the active surgeries
QueueColumn(columnSurgeries, now) ==
  LET activeSurgeries ==
        SelectSeq(columnSurgeries,
                  LAMBDA q : q.status \notin {"completed", "cancelled"})
      sorted == SortByWait(activeSurgeries, now)
  IN [i \in 1..Len(sorted) |->
        [id |-> sorted[i].id,
         waitHours |-> getWaitHours(sorted[i].created_at, now),
         escalate |-> shouldEscalate(sorted[i], now)]]

Priorities == {"emergency", "urgent", "elective"}
QueueStatuses == {"pending", "completed", "cancelled"}
Now == 5000
\* 48 h, 48 h 30, 71 h, 72 h, 72 h 29, 72 h 30, 73 h
WaitMinutes == {2880, 2910, 4260, 4320, 4349, 4350, 4380}

QueueItems(tier) ==
  [priority : {tier}, status : QueueStatuses,
   created_at : {Now - w : w \in WaitMinutes}]

\* the rows of one tier, numbered in the order of the input
Numbered(items) ==
  [i \in 1..Len(items) |->
     [id |-> i, priority |-> items[i].priority, status |-> items[i].status,
      created_at |-> items[i].created_at]]

QueueArg(items) ==
  [fn |-> "QueueColumn", surgeries |-> Numbered(items), now |-> Now]

CallQueueColumn ==
  /\ args.fn = "QueueColumn"
  /\ result = Pending
  /\ result' = [entries |-> QueueColumn(args.surgeries, args.now)]
  /\ UNCHANGED <<args, orchVars>>

InitQueue ==
  /\ revision = "app/actions/surgery.ts"
  /\ surgeries = <<>>
  /\ slots = <<>>
  /\ notifications = {}
  /\ view = <<>>
  /\ call = <<>>
  /\ drops = 0
  /\ \E tier \in Priorities, k \in 0..MaxQueue :
       \E items \in [1..k -> QueueItems(tier)] : args = QueueArg(items)
  /\ result = Pending

NextQueue == CallQueueColumn

SpecQueue == InitQueue /\ [][NextQueue]_vars

(***************************************************************************)
(* SpecHours: the surgeon of surgeries 3, 4 and 5 is booked for 11 hours   *)
(* (surgeries 4 and 5 with their setup and cleanup slots in room 2);       *)
(* surgery 3, of 90 minutes, is approved and waits for a slot.             *)
(***************************************************************************)
HoursSurgeryIds == {3, 4, 5}
FirstBookedStart == 435
SecondBookedStart == 765

BookedSurgery(id, start) ==
  [ApprovedSurgery(id) EXCEPT !.status = "scheduled", !.or_id = Rooms[2].id,
                              !.scheduled_start = start,
                              !.scheduled_end = start + NewSurgery(id).estimated_duration]

InitHours ==
  /\ revision \in Revisions
  /\ surgeries = [id \in HoursSurgeryIds |->
                    CASE id = 4 -> BookedSurgery(4, FirstBookedStart)
                      [] id = 5 -> BookedSurgery(5, SecondBookedStart)
                      [] OTHER -> ApprovedSurgery(id)]
  /\ slots = InsertRows(NewSlots(5, Rooms[2].id, SecondBookedStart,
                                 SecondBookedStart + NewSurgery(5).estimated_duration),
                        NewSlots(4, Rooms[2].id, FirstBookedStart,
                                 FirstBookedStart + NewSurgery(4).estimated_duration))
  /\ notifications = {}
  /\ view = [c \in Browsers |-> [slots |-> <<>>, unscheduled |-> {}]]
  /\ call = [c \in Browsers |-> NoCall]
  /\ drops = 0
  /\ args = Pending
  /\ result = Pending

NextHours ==
  \/ \E c \in Clients : Refresh(c)
  \/ \E c \in Clients, id \in HoursSurgeryIds, fromSlot \in BOOLEAN,
        orId \in RoomIds, hour \in DropHours :
       handleDrop(c, id, fromSlot, orId, hour)
  \/ \E c \in Clients, user \in Users, ok \in BOOLEAN :
       scheduleSurgery_update(c, user, ok)
  \/ \E c \in Clients, ok \in BOOLEAN : scheduleSurgery_delete(c, ok)
  \/ \E c \in Clients, ok \in BOOLEAN, okNotify \in BOOLEAN :
       scheduleSurgery_insert(c, ok, okNotify)

SpecHours == InitHours /\ [][NextHours]_vars

(***************************************************************************)
(* SpecAuto: AutoPlace of one approved surgery.  OR-1 holds the surgery    *)
(* slot 09:00-10:00 of surgery 2; a second general room is free or taken   *)
(* for the whole day by surgery 3.                                         *)
(***************************************************************************)
AutoClients == {1}
AutoDurations == {60, 120}

OR1 == Rooms[1]
GeneralB ==
  [id |-> 3, room_type |-> "general", capabilities |-> {"general"},
   status |-> "available"]

AutoRoomLists ==
  {<<OR1>>, <<OR1, GeneralB>>, <<GeneralB, OR1>>,
   <<Rooms[2], OR1, GeneralB>>, <<Rooms[2], GeneralB, OR1>>}

\* the surgery slot 09:00-10:00 in OR-1
OR1Slot == SeedSlots(2)[2]

\* room General B taken from 07:00 to 20:00
GeneralBTaken ==
  [surgery_id |-> 3, or_id |-> GeneralB.id,
   start_time |-> DayStartHour * 60, end_time |-> DayEndHour * 60,
   slot_type |-> "surgery"]

AutoRequest(id, rs) == [fn |-> "autoPlace", surgeryId |-> id, rooms |-> rs]

\* AutoPlace(surgeryId): the allocator is asked for a slot on the current
\* slots, then Place is called with the room and the window it returned
autoPlace(c) ==
  /\ args.fn = "autoPlace"
  /\ call[c] = NoCall
  /\ drops < MaxDrops
  /\ args.surgeryId \in DOMAIN surgeries
  /\ surgeries[args.surgeryId].status = "approved"
  /\ LET id == args.surgeryId
         r  == findBestSlot(surgeries[id], args.rooms, slots, 0)
     IN /\ r.found
        /\ call' = [call EXCEPT ![c] =
                      [pc |-> "update", surgeryId |-> id, orId |-> r.or.id,
                       startTime |-> r.start, endTime |-> r.end,
                       surgery |-> FALSE,
                       before |-> [row |-> surgeries[id],
                                   slots |-> SlotsOf(id, slots)]]]
  /\ drops' = drops + 1
  /\ UNCHANGED <<revision, surgeries, slots, notifications, view, probeVars>>

InitAuto ==
  /\ revision \in Revisions
  /\ \E d \in AutoDurations :
       surgeries = [id \in {1, 2, 3} |->
                      IF id = 1
                        THEN [ApprovedSurgery(1) EXCEPT !.estimated_duration = d]
                        ELSE ScheduledSurgery(id)]
  /\ slots \in {<<OR1Slot>>, InsertRows(<<GeneralBTaken>>, <<OR1Slot>>)}
  /\ notifications = {}
  /\ view = [c \in AutoClients |-> PageProps(slots, surgeries)]
  /\ call = [c \in AutoClients |-> NoCall]
  /\ drops = 0
  /\ \E rs \in AutoRoomLists : args = AutoRequest(1, rs)
  /\ result = Pending

NextAuto ==
  \/ \E c \in Clients : autoPlace(c)
  \/ \E c \in Clients, user \in Users, ok \in BOOLEAN :
       scheduleSurgery_update(c, user, ok)
  \/ \E c \in Clients, ok \in BOOLEAN : scheduleSurgery_delete(c, ok)
  \/ \E c \in Clients, ok \in BOOLEAN, okNotify \in BOOLEAN :
       scheduleSurgery_insert(c, ok, okNotify)

SpecAuto == InitAuto /\ [][NextAuto]_vars

(***************************************************************************)
(* Properties of the scheduler functions (SpecScheduler)                   *)
(***************************************************************************)
Range(f) == {f[i] : i \in DOMAIN f}

Checked == args.fn = "checkConstraints" /\ result # Pending
Searched == args.fn = "findBestSlot" /\ result # Pending

\* some slot of the proposed room shares an instant with the window
SharesInstant ==
  \E i \in 1..Len(args.existingSlots) :
     /\ args.existingSlots[i].or_id = args.proposedOR.id
     /\ args.proposedStart < args.existingSlots[i].end_time
     /\ args.proposedEnd > args.existingSlots[i].start_time

SlotAt(orId, s, e) ==
  [surgery_id |-> 9, or_id |-> orId, start_time |-> s, end_time |-> e,
   slot_type |-> "surgery", surgeon_id |-> 1]

\* C8: checkConstraints reports the overlap violation exactly when a slot of
\* the proposed room satisfies ps < se and pe > ss; windows that touch do
\* not conflict, [10:00,11:00) against [10:59,12:00) does, [11:00,12:00)
\* against [10:00,11:00) does not, and slots of other rooms never count.
C8_OverlapExact ==
  Checked =>
    /\ ("no_overlap" \in Range(result.hardViolations)) <=> SharesInstant
    /\ (/\ args.proposedStart = 600 /\ args.proposedEnd = 660
        /\ args.existingSlots = <<SlotAt(args.proposedOR.id, 659, 720)>>)
         => result.hasConflict
    /\ (/\ args.proposedStart = 660 /\ args.proposedEnd = 720
        /\ args.existingSlots = <<SlotAt(args.proposedOR.id, 600, 660)>>)
         => "no_overlap" \notin Range(result.hardViolations)
    /\ (\A i \in 1..Len(args.existingSlots) :
          args.existingSlots[i].or_id # args.proposedOR.id)
         => "no_overlap" \notin Range(result.hardViolations)

\* a window that only touches the slot before it has been checked and is
\* free of the overlap violation
C8_Witness ==
  /\ Checked
  /\ args.proposedStart = 660 /\ args.proposedEnd = 720
  /\ args.existingSlots = <<SlotAt(args.proposedOR.id, 600, 660),
                            SlotAt(3 - args.proposedOR.id, 659, 720)>>
  /\ "no_overlap" \notin Range(result.hardViolations)

\* C9: a placement returned by findBestSlot, passed back through
\* checkConstraints with the same slots, reports no hard violation.
C9_FindPassesCheck ==
  (Searched /\ result.found) =>
    ~ checkConstraints(args.surgery, result.or, result.start, result.end,
                       args.existingSlots, NoSurgeon, <<>>).hasConflict

\* findBestSlot has returned a placement in a room that holds slots
C9_Witness ==
  /\ Searched /\ result.found
  /\ \E i \in 1..Len(args.existingSlots) :
       args.existingSlots[i].or_id = result.or.id
  /\ result.start > DayStartHour * 60 + SetupMin

\* C10: every placement returned by findBestSlot lies inside the operating
\* day: its setup margin starts at or after 07:00 and its cleanup margin
\* ends at or before 20:00.
C10_InsideDay ==
  (Searched /\ result.found) =>
    /\ result.start - SetupMin >= args.startDate * 1440 + DayStartHour * 60
    /\ result.end + CleanupMin <= args.startDate * 1440 + DayEndHour * 60

(***************************************************************************)
(* Properties of placement (SpecPlace)                                     *)
(***************************************************************************)
RowsOverlap(a, b) ==
  /\ a.surgery_id # b.surgery_id
  /\ a.or_id = b.or_id
  /\ a.start_time < b.end_time
  /\ b.start_time < a.end_time

NoCrossOverlap(rows) ==
  \A i, j \in 1..Len(rows) : ~ RowsOverlap(rows[i], rows[j])

\* C1: two Place operations for different surgeries that target the same
\* room with overlapping windows never both commit, however their
\* validation and their writes are interleaved: the table never holds the
\* surgery slots of two surgeries with intersecting windows in one room.
C1_NoDoubleCommit ==
  \A i, j \in 1..Len(slots) :
     (slots[i].slot_type = "surgery" /\ slots[j].slot_type = "surgery")
       => ~ RowsOverlap(slots[i], slots[j])

\* the window of an invocation passes checkConstraints against the slots
\* the table holds now, without the surgery's own slots
PassesNow(c) ==
  ~ checkConstraints(NewSurgery(call[c].surgeryId), RoomById(call[c].orId),
                     call[c].startTime, call[c].endTime,
                     SlotsNotOf(call[c].surgeryId, slots),
                     NoSurgeon, <<>>).hasConflict

Inserts(c) == call[c].pc = "insert" /\ call'[c] = NoCall /\ slots' # slots
InsertFails(c) == call[c].pc = "insert" /\ call'[c] = NoCall /\ slots' = slots

\* C2: a placement whose window passes checkConstraints leaves the table
\* free of intersecting slots of different surgeries in one room, the setup
\* and cleanup slots it inserts included.
C2_ValidatedPlacementKeepsRoomsDisjoint ==
  [][\A c \in Clients :
       (Inserts(c) /\ PassesNow(c) /\ NoCrossOverlap(slots))
         => NoCrossOverlap(slots')]_vars

\* C3: a Place that fails leaves the surgery's row and the set of its
\* slots as they were before the call.
C3_FailedPlaceChangesNothing ==
  [][\A c \in Clients :
       InsertFails(c) =>
         /\ surgeries'[call[c].surgeryId] = call[c].before.row
         /\ SlotsOf(call[c].surgeryId, slots') = call[c].before.slots]_vars

SlotTypes(rows) == {rows[i].slot_type : i \in 1..Len(rows)}
SlotRooms(rows) == {rows[i].or_id : i \in 1..Len(rows)}

\* C4: after a successful Place exactly three slots exist for the surgery,
\* one setup, one surgery and one cleanup slot, all in the room of that
\* placement.
C4_ExactlyThreeSlots ==
  [][\A c \in Clients :
       Inserts(c) =>
         LET own == SlotsOf(call[c].surgeryId, slots')
         IN /\ Len(own) = 3
            /\ SlotTypes(own) = {"setup", "surgery", "cleanup"}
            /\ SlotRooms(own) = {call[c].orId}]_vars

(***************************************************************************)
(* Properties of the life cycle (Spec)                                     *)
(***************************************************************************)
HasSlots(id) == \E i \in 1..Len(slots) : slots[i].surgery_id = id

\* C5: a surgery whose status is scheduled has schedule slots.
C5_ScheduledHasSlots ==
  \A id \in DOMAIN surgeries :
     surgeries[id].status = "scheduled" => HasSlots(id)

Rank(status) ==
  CASE status = "pending" -> 1
    [] status = "approved" -> 2
    [] status = "scheduled" -> 3
    [] status = "in_progress" -> 4
    [] status = "completed" -> 5
    [] OTHER -> 0

\* a move the state machine of the surgery allows: forward along the chain
\* pending, approved, scheduled, in_progress, completed, or to cancelled or
\* rescheduled from a status before completed
AllowedMove(from, to) ==
  \/ from = to
  \/ Rank(from) > 0 /\ Rank(to) > Rank(from)
  \/ to \in {"cancelled", "rescheduled"} /\ from # "completed"
  \/ from \in {"cancelled", "rescheduled"} /\ to # "completed"

\* C6: the status of a surgery only moves along pending, approved,
\* scheduled, in_progress, completed, or to cancelled or rescheduled from a
\* status before completed; the status of a completed surgery never
\* changes.
C6_StatusMovesForward ==
  [][\A id \in DOMAIN surgeries \cap DOMAIN surgeries' :
       AllowedMove(surgeries[id].status, surgeries'[id].status)]_vars

\* C7: no schedule slot exists for a surgery that has been deleted or
\* whose status is cancelled.
C7_NoSlotsOfDeletedOrCancelled ==
  \A i \in 1..Len(slots) :
     /\ slots[i].surgery_id \in DOMAIN surgeries
     /\ surgeries[slots[i].surgery_id].status # "cancelled"

(***************************************************************************)
(* Properties of AutoPlace (SpecAuto)                                      *)
(***************************************************************************)
\* the 60-minute surgery of the scenario is being placed
Scenario60 ==
  /\ args.fn = "autoPlace"
  /\ args.surgeryId \in DOMAIN surgeries
  /\ surgeries[args.surgeryId].estimated_duration = 60

RoomFree(orId, rows) == \A i \in 1..Len(rows) : rows[i].or_id # orId

\* the positions of the room list that hold OR-1 or a free general room
UsablePositions(rs, rows) ==
  {i \in 1..Len(rs) :
     /\ rs[i].room_type = "general"
     /\ rs[i].id = OR1.id \/ RoomFree(rs[i].id, rows)}

FirstUsable(rs, rows) ==
  rs[CHOOSE i \in UsablePositions(rs, rows) :
       \A j \in UsablePositions(rs, rows) : i <= j]

ThreeSlotsIn(id, orId, rows) ==
  LET own == SlotsOf(id, rows)
  IN /\ Len(own) = 3
     /\ SlotTypes(own) = {"setup", "surgery", "cleanup"}
     /\ SlotRooms(own) = {orId}

AssignedMinutes ==
  SumSeq([i \in 1..Len(args.existingSlots) |->
            IF args.existingSlots[i].surgeon_id = args.surgeon.id
              THEN args.existingSlots[i].end_time - args.existingSlots[i].start_time
              ELSE 0])

\* C12: with a surgeon supplied, checkConstraints reports the surgeon-hours
\* violation exactly when the minutes of the surgeon's existing slots plus
\* the minutes of the proposed window exceed the surgeon's
\* max_hours_per_day.
C12_SurgeonHoursUseMaxHours ==
  (Checked /\ args.surgeon # NoSurgeon) =>
    (("surgeon_hours" \in Range(result.hardViolations))
       <=> (AssignedMinutes + (args.proposedEnd - args.proposedStart)
              > args.surgeon.max_hours_per_day * 60))

(***************************************************************************)
(* Properties of the surgeon's hours in placement (SpecHours)              *)
(***************************************************************************)
\* minutes of the slots of the other surgeries assigned to the surgeon of
\* surgery id
BookedMinutes(id, rows) ==
  SumSeq([i \in 1..Len(rows) |->
            IF /\ rows[i].surgery_id # id
               /\ rows[i].surgery_id \in DOMAIN surgeries
               /\ surgeries[rows[i].surgery_id].surgeon_id = surgeries[id].surgeon_id
              THEN rows[i].end_time - rows[i].start_time
              ELSE 0])

\* the invocation places a 90-minute surgery of a surgeon whose other
\* slots total 11 hours or more
Overbooked(c) ==
  /\ call[c].surgeryId \in DOMAIN surgeries
  /\ surgeries[call[c].surgeryId].surgeon_id # NullId
  /\ call[c].endTime - call[c].startTime = 90
  /\ BookedMinutes(call[c].surgeryId, slots) >= 11 * 60

\* C13: a 90-minute surgery of a surgeon whose slots total 11 hours is
\* never given slots by the drag-and-drop placement.
C13_OverbookedSurgeonRejected ==
  [][\A c \in Clients : ~ (Inserts(c) /\ Overbooked(c))]_vars

(***************************************************************************)
(* Properties of rooms out of service                                      *)
(***************************************************************************)
ClosedStatuses == {"maintenance", "blocked"}

\* C14: a room in maintenance or blocked accepts no new placement:
\* checkConstraints reports a conflict for it, findBestSlot never returns
\* it, and the table holds no slot that a Place put into it.
C14_ClosedRoomsAcceptNothing ==
  /\ (Checked /\ args.proposedOR.status \in ClosedStatuses)
        => result.hasConflict
  /\ (Searched /\ result.found)
        => result.or.status \notin ClosedStatuses
  /\ \A i \in 1..Len(slots) :
        RoomById(slots[i].or_id).status \notin ClosedStatuses

(***************************************************************************)
(* Properties of the result of checkConstraints (SpecScheduler)            *)
(***************************************************************************)
OverlappingSlots ==
  {i \in 1..Len(args.existingSlots) :
     /\ args.existingSlots[i].or_id = args.proposedOR.id
     /\ args.proposedStart < args.existingSlots[i].end_time
     /\ args.proposedEnd > args.existingSlots[i].start_time}

CapabilityBroken ==
  /\ args.surgery.specialization_required # NoSpec
  /\ args.proposedOR.room_type # "general"
  /\ args.surgery.specialization_required \notin args.proposedOR.capabilities
  /\ args.proposedOR.room_type # args.surgery.specialization_required

SurgeonMismatch ==
  /\ args.surgeon # NoSurgeon
  /\ args.surgery.specialization_required # NoSpec
  /\ args.surgeon.specialization # args.surgery.specialization_required

HoursExceeded ==
  /\ args.surgeon # NoSurgeon
  /\ AssignedMinutes + (args.proposedEnd - args.proposedStart)
       > SurgeonLimitHours * 60

EquipmentBlocked ==
  \E i \in 1..Len(args.equipmentList) :
     args.equipmentList[i].status \in {"maintenance", "retired", "sterilizing"}

SomeHardRuleBroken ==
  \/ OverlappingSlots # {}
  \/ CapabilityBroken
  \/ SurgeonMismatch
  \/ HoursExceeded
  \/ EquipmentBlocked

One(b) == IF b THEN 1 ELSE 0

HardRulesBroken ==
  One(OverlappingSlots # {}) + One(CapabilityBroken) + One(SurgeonMismatch)
    + One(HoursExceeded) + One(EquipmentBlocked)

CountOf(tag, seq) == Cardinality({i \in 1..Len(seq) : seq[i] = tag})

\* C15: hasConflict is true exactly when a hard rule is broken, soft
\* violations alone never set it, the score is
\* max(0, 100 - 25 * hard violations - 5 * soft violations) and lies in
\* 0..100; hardViolations holds one entry for every existing slot the
\* window overlaps.
C15_ScoreCountsViolations ==
  Checked =>
    /\ result.hasConflict <=> SomeHardRuleBroken
    /\ Len(result.hardViolations) = 0 => ~ result.hasConflict
    /\ result.score = Max(0, 100 - 25 * Len(result.hardViolations)
                                  - 5 * Len(result.softViolations))
    /\ result.score \in 0..100
    /\ CountOf("no_overlap", result.hardViolations) = Cardinality(OverlappingSlots)

\* a window that overlaps two slots of its room has been checked: two
\* entries and 50 points off
C15_Witness ==
  /\ Checked
  /\ Cardinality(OverlappingSlots) = 2
  /\ result.hardViolations = <<"no_overlap", "no_overlap">>
  /\ result.hasConflict
  /\ result.score = 50

\* C15 as stated: the score takes 25 points for every broken hard rule,
\* a window that overlaps several slots breaking the no-overlap rule once.
C15_ScoreCountsRules ==
  Checked =>
    /\ result.hasConflict <=> SomeHardRuleBroken
    /\ result.score = Max(0, 100 - 25 * HardRulesBroken
                                  - 5 * Len(result.softViolations))
    /\ result.score \in 0..100

(***************************************************************************)
(* Properties of the priority queue (SpecQueue)                            *)
(***************************************************************************)
Rendered == args.fn = "QueueColumn" /\ result # Pending

InputOf(id) == args.surgeries[id]
WaitedMinutes(id) == args.now - InputOf(id).created_at

\* C16: the escalate flag of an entry is true exactly when the surgery is
\* elective and has waited more than 72 hours or urgent and more than 48
\* hours, the wait being rounded to whole hours; never for emergency:
\* elective at 73 h is flagged, at 71 h and at 72 h it is not.
C16_EscalateFlagExact ==
  Rendered =>
    \A i \in 1..Len(result.entries) :
       LET e == result.entries[i]
           q == InputOf(e.id)
           w == WaitedMinutes(e.id)
       IN /\ e.escalate <=>
               \/ q.priority = "elective" /\ 2 * w >= 2 * 72 * 60 + 60
               \/ q.priority = "urgent" /\ 2 * w >= 2 * 48 * 60 + 60
          /\ q.priority = "emergency" => ~ e.escalate
          /\ (q.priority = "elective" /\ w = 73 * 60) => e.escalate
          /\ (q.priority = "elective" /\ w \in {71 * 60, 72 * 60})
               => ~ e.escalate

\* an elective column with a surgery at exactly 72 h, not flagged, and
\* one at 73 h, flagged
C16_Witness ==
  /\ Rendered
  /\ \E i, j \in 1..Len(result.entries) :
       /\ InputOf(result.entries[i].id).priority = "elective"
       /\ WaitedMinutes(result.entries[i].id) = 72 * 60
       /\ ~ result.entries[i].escalate
       /\ WaitedMinutes(result.entries[j].id) = 73 * 60
       /\ result.entries[j].escalate

ActiveIds ==
  {i \in 1..Len(args.surgeries) :
     args.surgeries[i].status \notin {"completed", "cancelled"}}

\* C17: the column shows exactly the surgeries that are neither completed
\* nor cancelled, longest wait first, surgeries of equal wait in the order
\* of the input.
C17_QueueOrder ==
  Rendered =>
    /\ {result.entries[i].id : i \in 1..Len(result.entries)} = ActiveIds
    /\ Len(result.entries) = Cardinality(ActiveIds)
    /\ \A i, j \in 1..Len(result.entries) :
         i < j =>
           LET a == result.entries[i]
               b == result.entries[j]
           IN /\ a.waitHours >= b.waitHours
              /\ a.waitHours = b.waitHours => a.id < b.id

\* a column of three rows: a completed one left out, and two of equal
\* wait behind each other in input order although their minutes differ
C17_Witness ==
  /\ Rendered
  /\ Len(args.surgeries) = 3
  /\ Len(result.entries) = 2
  /\ result.entries[1].waitHours = result.entries[2].waitHours
  /\ WaitedMinutes(result.entries[1].id) < WaitedMinutes(result.entries[2].id)

\* ---------------------------------------------------------------------
\* Escalation from the priority queue
\* ---------------------------------------------------------------------

\* the tier an escalated surgery is announced to move to
\* (newPriority in handleEscalate)
NextTier(priority) ==
  IF priority = "elective" THEN "urgent" ELSE "emergency"

\* C18: a successful escalation by a signed-in user moves the surgery one
\* tier up (elective to urgent, urgent to emergency) and leaves the
\* schedule slots as they were.
C18_EscalateRaisesPriority ==
  [][\A id \in SurgeryIds :
       (\E user \in Roles : handleEscalate(id, user, TRUE))
         => /\ surgeries'[id].priority = NextTier(surgeries[id].priority)
            /\ slots' = slots]_vars

(***************************************************************************)
(* SpecNotify: approval and placement with a notifications table that may  *)
(* refuse an insert                                                        *)
(***************************************************************************)
\* one browser shows the schedule
NotifyBrowsers == {1}

\* the approve and reject buttons of the surgery list, shown for a surgery
\* whose approval is pending
handleApproval(id, approved, user, ok, okNotify) ==
  /\ id \in DOMAIN surgeries
  /\ surgeries[id].approval_status = "pending"
  /\ approveSurgery(id, approved, user, ok, okNotify)

\* surgery 1 waits for approval, surgery 2 waits for a slot
InitNotify ==
  /\ revision \in Revisions
  /\ surgeries = [id \in SurgeryIds |->
                    IF id = 1 THEN NewSurgery(id) ELSE ApprovedSurgery(id)]
  /\ slots = <<>>
  /\ notifications = {}
  /\ view = [c \in NotifyBrowsers |-> [slots |-> <<>>, unscheduled |-> {}]]
  /\ call = [c \in NotifyBrowsers |-> NoCall]
  /\ drops = 0
  /\ args = Pending
  /\ result = Pending

NextNotify ==
  \/ \E id \in SurgeryIds, approved \in BOOLEAN, user \in Users,
        ok \in BOOLEAN, okNotify \in BOOLEAN :
       handleApproval(id, approved, user, ok, okNotify)
  \/ \E c \in Clients : Refresh(c)
  \/ \E c \in Clients, id \in SurgeryIds, fromSlot \in BOOLEAN,
        orId \in RoomIds, hour \in DropHours :
       handleDrop(c, id, fromSlot, orId, hour)
  \/ \E c \in Clients, user \in Users, ok \in BOOLEAN :
       scheduleSurgery_update(c, user, ok)
  \/ \E c \in Clients, ok \in BOOLEAN : scheduleSurgery_delete(c, ok)
  \/ \E c \in Clients, ok \in BOOLEAN, okNotify \in BOOLEAN :
       scheduleSurgery_insert(c, ok, okNotify)

SpecNotify == InitNotify /\ [][NextNotify]_vars

\* the roles approveSurgery accepts
Approvers == {user \in Roles : canApproveSurgery(user)}

\* the three slots of the placement a browser's call is carrying out
CallSlots(c) ==
  NewSlots(call[c].surgeryId, call[c].orId, call[c].startTime, call[c].endTime)

\* C19: when the slots are inserted, or the approval is written, and the
\* notification insert that follows fails, the step keeps the surgery's
\* status as written, keeps the inserted slots, and returns success.
C19_NotifyFailureKeepsChange ==
  [][/\ \A c \in Clients :
          scheduleSurgery_insert(c, TRUE, FALSE)
            => /\ result' = Success
               /\ surgeries' = surgeries
               /\ Range(CallSlots(c)) \subseteq Range(slots')
               /\ Len(slots') = Len(slots) + Len(CallSlots(c))
     /\ \A id \in SurgeryIds, approved \in BOOLEAN, user \in Approvers :
          approveSurgery(id, approved, user, TRUE, FALSE)
            => /\ result' = Success
               /\ surgeries'[id].status =
                    IF approved THEN "approved" ELSE "cancelled"
               /\ slots' = slots]_vars

\* surgery 1 was approved and a surgery was placed while every notification
\* insert failed
C19_Witness ==
  /\ result = Success
  /\ notifications = {}
  /\ surgeries[1].approval_status = "approved"
  /\ Len(slots) > 0
  /\ \E c \in Clients : call[c] = NoCall /\ Len(view[c].slots) = Len(slots)

(***************************************************************************)
(* SpecEquipment: predictEquipmentFailure on bounded inputs                *)
(***************************************************************************)
\* Math.round of the fraction num / den (den > 0): halves go up
MathRound(num, den) == (2 * num + den) \div (2 * den)

\* intervals[equipmentType] ?? 90, in days
ExpectedInterval(equipmentType) ==
  CASE equipmentType = "instruments" -> 90
    [] equipmentType = "anesthesia" -> 180
    [] equipmentType = "cardiac" -> 60
    [] equipmentType = "neuro" -> 90
    [] equipmentType = "imaging" -> 120
    [] equipmentType = "monitoring" -> 180
    [] OTHER -> 90

\* typeMultiplier[equipmentType] ?? 1, in tenths
TypeMultiplierTenths(equipmentType) ==
  CASE equipmentType = "cardiac" -> 13
    [] equipmentType = "neuro" -> 12
    [] equipmentType = "anesthesia" -> 11
    [] equipmentType = "instruments" -> 10
    [] equipmentType = "imaging" -> 9
    [] equipmentType = "monitoring" -> 8
    [] OTHER -> 10

\* rawScore = usageRatio * 55 + ageRisk * 35 + (typeMultiplier - 1) * 30,
\* as the fraction RawScoreNum / RawScoreDen
RawScoreDen(params) == params.maxUsage * ExpectedInterval(params.equipmentType)
RawScoreNum(params) ==
  55 * params.usageCount * ExpectedInterval(params.equipmentType)
    + 35 * params.daysSinceLastMaintenance * params.maxUsage
    + (TypeMultiplierTenths(params.equipmentType) - 10) * 3 * RawScoreDen(params)

\* score = Math.round(Math.min(100, rawScore))
Score(params) ==
  IF RawScoreNum(params) > 100 * RawScoreDen(params)
    THEN 100
    ELSE MathRound(RawScoreNum(params), RawScoreDen(params))

RiskOf(score) ==
  IF score >= 80 THEN "critical"
  ELSE IF score >= 60 THEN "high"
  ELSE IF score >= 40 THEN "medium"
  ELSE "low"

\* the risk and the score of the prediction (probability, action and
\* factors are derived from the same rawScore and are not modelled)
predictEquipmentFailure(params) ==
  [risk |-> RiskOf(Score(params)), score |-> Score(params)]

EquipmentTypes ==
  {"instruments", "anesthesia", "cardiac", "neuro", "imaging", "monitoring", "other"}
UsageCounts == {0, 35, 70, 90, 100, 140}
MaxUsages == {100, 200}
DaysSinceService == {0, 30, 90, 180, 400}

EquipmentArg(usageCount, maxUsage, equipmentType, days) ==
  [fn |-> "predictEquipmentFailure", usageCount |-> usageCount,
   maxUsage |-> maxUsage, equipmentType |-> equipmentType,
   daysSinceLastMaintenance |-> days]

CallPredictEquipmentFailure ==
  /\ args.fn = "predictEquipmentFailure"
  /\ result = Pending
  /\ result' = predictEquipmentFailure(args)
  /\ UNCHANGED <<args, orchVars>>

InitEquipment ==
  /\ revision = "app/actions/surgery.ts"
  /\ surgeries = <<>>
  /\ slots = <<>>
  /\ notifications = {}
  /\ view = <<>>
  /\ call = <<>>
  /\ drops = 0
  /\ \E usageCount \in UsageCounts, maxUsage \in MaxUsages,
        equipmentType \in EquipmentTypes, days \in DaysSinceService :
       args = EquipmentArg(usageCount, maxUsage, equipmentType, days)
  /\ result = Pending

NextEquipment == CallPredictEquipmentFailure

SpecEquipment == InitEquipment /\ [][NextEquipment]_vars

\* C20: every prediction has a score between 0 and 100, and its risk is
\* critical exactly from 80, high from 60 to 79, medium from 40 to 59 and
\* low below 40.
C20_ScoreAndRiskBands ==
  result # Pending
    => /\ result.score >= 0
       /\ result.score <= 100
       /\ (result.risk = "critical") <=> (result.score >= 80)
       /\ (result.risk = "high") <=> (result.score >= 60 /\ result.score < 80)
       /\ (result.risk = "medium") <=> (result.score >= 40 /\ result.score < 60)
       /\ (result.risk = "low") <=> (result.score < 40)

(***************************************************************************)
(* SpecQuality: scoreScheduleQuality on bounded slot lists                 *)
(***************************************************************************)
MaxQualitySlots == 3

Min(a, b) == IF a < b THEN a ELSE b

\* [...slots].sort((a, b) => a.start - b.start): a stable sort by start
RECURSIVE InsertByStartDate(_, _)
InsertByStartDate(x, sorted) ==
  IF sorted = <<>> THEN <<x>>
  ELSE IF Head(sorted).start <= x.start
       THEN <<Head(sorted)>> \o InsertByStartDate(x, Tail(sorted))
       ELSE <<x>> \o sorted

RECURSIVE SortByStartDate(_)
SortByStartDate(s) ==
  IF s = <<>> THEN <<>>
  ELSE InsertByStartDate(s[Len(s)], SortByStartDate(SubSeq(s, 1, Len(s) - 1)))

\* the number of idle gaps of more than 30 minutes between neighbours
IdleGaps(sorted) ==
  Cardinality({i \in 2..Len(sorted) : sorted[i].start - sorted[i - 1].end > 30})

\* a gap of two hours or more between two neighbours
hasEmergencyBuffer(sorted) ==
  \E i \in 1..(Len(sorted) - 1) : sorted[i + 1].start - sorted[i].end >= 120

\* the slots that end in the hour of 18:00 or later
overtimeSlots(sorted) ==
  SelectSeq(sorted, LAMBDA sl : getHours(sl.end) >= 18)

\* three slots in a row with complexity 4 or more
HasComplexRun(sorted) ==
  \E i \in 1..(Len(sorted) - 2) :
     \A j \in i..(i + 2) : sorted[j].complexity >= 4

\* the score before it is clamped
QualityPoints(sorted) ==
  100 - 5 * IdleGaps(sorted)
      - (IF ~ hasEmergencyBuffer(sorted) /\ Len(sorted) > 2 THEN 10 ELSE 0)
      - 3 * Len(overtimeSlots(sorted))
      - (IF HasComplexRun(sorted) THEN 8 ELSE 0)

GradeOf(score) ==
  IF score >= 90 THEN "A"
  ELSE IF score >= 75 THEN "B"
  ELSE IF score >= 60 THEN "C"
  ELSE IF score >= 40 THEN "D"
  ELSE "F"

\* the disruption probability of a list that is not empty
DisruptionOf(score, slotCount) ==
  Max(5, Min(95, 100 - score + slotCount * 2))

scoreScheduleQuality(qslots) ==
  IF Len(qslots) = 0
    THEN [score |-> 100, grade |-> "A", disruptionProbability |-> 0]
    ELSE LET score == Max(0, Min(100, QualityPoints(SortByStartDate(qslots))))
         IN  [score |-> score, grade |-> GradeOf(score),
              disruptionProbability |-> DisruptionOf(score, Len(qslots))]

\* the windows and complexities of the slots of the probe
QualityWindows == {<<480, 540>>, <<560, 660>>, <<800, 1085>>, <<1080, 1140>>}
QualityComplexities == {2, 4}
QualitySlots ==
  {[start |-> w[1], end |-> w[2], complexity |-> cx] :
     w \in QualityWindows, cx \in QualityComplexities}

QualityArg(qslots) == [fn |-> "scoreScheduleQuality", slots |-> qslots]

CallScoreScheduleQuality ==
  /\ args.fn = "scoreScheduleQuality"
  /\ result = Pending
  /\ result' = scoreScheduleQuality(args.slots)
  /\ UNCHANGED <<args, orchVars>>

InitQuality ==
  /\ revision = "app/actions/surgery.ts"
  /\ surgeries = <<>>
  /\ slots = <<>>
  /\ notifications = {}
  /\ view = <<>>
  /\ call = <<>>
  /\ drops = 0
  /\ \E k \in 0..MaxQualitySlots :
       \E qslots \in [1..k -> QualitySlots] : args = QualityArg(qslots)
  /\ result = Pending

NextQuality == CallScoreScheduleQuality

SpecQuality == InitQuality /\ [][NextQuality]_vars

\* the value between lo and hi nearest to x
Clamp(x, lo, hi) == IF x < lo THEN lo ELSE IF x > hi THEN hi ELSE x

\* C21: for every slot list, the empty one included, the score lies between
\* 0 and 100 (100 with grade A for the empty list) and the disruption
\* probability is 100 - score + 2 * (number of slots) clamped to 5..95.
C21_QualityScoreAndDisruption ==
  result # Pending
    => /\ result.score >= 0
       /\ result.score <= 100
       /\ Len(args.slots) = 0 => result.score = 100 /\ result.grade = "A"
       /\ result.disruptionProbability =
            Clamp(100 - result.score + 2 * Len(args.slots), 5, 95)

(***************************************************************************)
(* SpecSequence: recommendSurgerySequence on bounded surgery lists         *)
(***************************************************************************)
MaxSequence == 4

\* priorityWeight[s.priority] ?? 100
priorityWeight(priority) ==
  CASE priority = "emergency" -> 1000
    [] priority = "urgent" -> 500
    [] OTHER -> 100

\* the score given to a surgery of the list
SequenceScore(s) == priorityWeight(s.priority) + (6 - s.complexity) * 10

\* scored.sort((a, b) => b.score - a.score): a stable sort, highest first
RECURSIVE InsertByScore(_, _)
InsertByScore(x, sorted) ==
  IF sorted = <<>> THEN <<x>>
  ELSE IF SequenceScore(Head(sorted)) >= SequenceScore(x)
       THEN <<Head(sorted)>> \o InsertByScore(x, Tail(sorted))
       ELSE <<x>> \o sorted

RECURSIVE SortByScore(_)
SortByScore(s) ==
  IF s = <<>> THEN <<>>
  ELSE InsertByScore(s[Len(s)], SortByScore(SubSeq(s, 1, Len(s) - 1)))

\* a batching test that looks at the procedure type only
sameType_anyPriority(s, next) == s.procedureType = next.procedureType

\* the filter of the batching pass
sameType(s, next) ==
  s.procedureType = next.procedureType /\ s.priority = next.priority

\* the loop over remaining: the head is placed, then the remaining
\* surgeries of its procedure type and priority, in their order
RECURSIVE Batch(_)
Batch(remaining) ==
  IF remaining = <<>> THEN <<>>
  ELSE LET next == Head(remaining)
           rest == Tail(remaining)
       IN  <<next>> \o SelectSeq(rest, LAMBDA s : sameType(s, next))
             \o Batch(SelectSeq(rest, LAMBDA s : ~ sameType(s, next)))

recommendSurgerySequence(list) ==
  LET ordered == Batch(SortByScore(list))
  IN  [orderedIds |-> [i \in 1..Len(ordered) |-> ordered[i].id]]

SequenceComplexities == {1, 5}
ProcedureTypes == {"cardiac", "orthopedic"}
SequenceItems ==
  [priority : Priorities, complexity : SequenceComplexities,
   procedureType : ProcedureTypes]

\* the list with the ids 1..Len given to its items
SequenceArg(items) ==
  [fn |-> "recommendSurgerySequence",
   surgeries |-> [i \in 1..Len(items) |->
                    [id |-> i, priority |-> items[i].priority,
                     complexity |-> items[i].complexity,
                     procedureType |-> items[i].procedureType]]]

CallRecommendSurgerySequence ==
  /\ args.fn = "recommendSurgerySequence"
  /\ result = Pending
  /\ result' = recommendSurgerySequence(args.surgeries)
  /\ UNCHANGED <<args, orchVars>>

InitSequence ==
  /\ revision = "app/actions/surgery.ts"
  /\ surgeries = <<>>
  /\ slots = <<>>
  /\ notifications = {}
  /\ view = <<>>
  /\ call = <<>>
  /\ drops = 0
  /\ \E k \in 0..MaxSequence :
       \E items \in [1..k -> SequenceItems] : args = SequenceArg(items)
  /\ result = Pending

NextSequence == CallRecommendSurgerySequence

SpecSequence == InitSequence /\ [][NextSequence]_vars

\* emergency before urgent before elective
TierRank(priority) ==
  CASE priority = "emergency" -> 1
    [] priority = "urgent" -> 2
    [] OTHER -> 3

\* the priority of the surgery listed at a position of the recommendation
PriorityAt(i) == args.surgeries[result.orderedIds[i]].priority

\* C22: the recommendation lists every id of the input exactly once, and
\* no surgery of a lower tier precedes one of a higher tier (emergency,
\* then urgent, then elective), batching included.
C22_SequenceKeepsTiers ==
  result # Pending
    => /\ Len(result.orderedIds) = Len(args.surgeries)
       /\ Range(result.orderedIds) = DOMAIN args.surgeries
       /\ \A i, j \in DOMAIN result.orderedIds :
            i < j => TierRank(PriorityAt(i)) <= TierRank(PriorityAt(j))

\* a list with surgeries of two tiers in which the batching pass pulled a
\* surgery forward, past one with a higher score
C22_Witness ==
  /\ result # Pending
  /\ \E i, j \in DOMAIN result.orderedIds : PriorityAt(i) # PriorityAt(j)
  /\ \E i \in 1..(Len(result.orderedIds) - 1) :
       SequenceScore(args.surgeries[result.orderedIds[i]])
         < SequenceScore(args.surgeries[result.orderedIds[i + 1]])

(***************************************************************************)
(* SpecStaff: the seeded hospital with only surgeons, schedulers and       *)
(* nurses signed in                                                        *)
(***************************************************************************)
\* the roles that may not approve
Staff == Roles \ Approvers

NextStaff ==
  \/ \E id \in SurgeryIds, status \in Statuses, user \in Staff, ok \in BOOLEAN :
       updateSurgeryStatus(id, status, user, ok)
  \/ \E id \in SurgeryIds, user \in Staff, ok \in BOOLEAN :
       handleSchedule(id, user, ok)
  \/ \E id \in SurgeryIds, user \in Staff, ok \in BOOLEAN :
       handleEscalate(id, user, ok)
  \/ \E id \in SurgeryIds, approved \in BOOLEAN, user \in Staff,
        ok \in BOOLEAN, okNotify \in BOOLEAN :
       approveSurgery(id, approved, user, ok, okNotify)
  \/ \E id \in SurgeryIds, user \in Staff, okSlots \in BOOLEAN, ok \in BOOLEAN :
       deleteSurgery(id, user, okSlots, ok)

SpecStaff == Init /\ [][NextStaff]_vars

\* C23: no server action invoked by a surgeon, a scheduler or a nurse
\* moves a pending surgery to approved.
C23_OnlyApproversApprove ==
  [][\A id \in DOMAIN surgeries :
       surgeries[id].status = "pending" /\ id \in DOMAIN surgeries'
         => surgeries'[id].status # "approved"]_vars

(***************************************************************************)
(* SpecSync: the offline queue of one client and its background sync.      *)
(* view[c] holds the client's IndexedDB store pendingSync, the next key of *)
(* the store and navigator.onLine; call[r] is the position of a run of     *)
(* syncPending; surgeries holds the rows of the remote table in the order  *)
(* of their insertion.                                                     *)
(***************************************************************************)
MaxOffline == 2

OfflineClients == {1}

\* the runs of syncPending that may be in progress together: the one of
\* the interval timer (or of "sync now") and the one of the online event
SyncRuns == {"interval", "event"}

\* PendingSyncItem.type and PendingSyncItem.entity
SyncTypes == {"create", "update"}
SyncEntities == {"surgery", "equipment"}

pendingSync(c) == view[c].pendingSync

\* queueForSync: db.add on a store with an auto-incremented key
queueForSync(c, type, entity) ==
  /\ view[c].nextKey <= MaxOffline
  /\ view' = [view EXCEPT ![c] =
                [@ EXCEPT !.pendingSync =
                            Append(@, [id |-> view[c].nextKey, type |-> type,
                                       entity |-> entity,
                                       entityId |-> view[c].nextKey]),
                          !.nextKey = @ + 1]]
  /\ UNCHANGED <<revision, surgeries, slots, notifications, call, drops, probeVars>>

\* createSurgeryOffline: a new surgery with a fresh id is queued as
\* { type: "create", entity: "surgery" }
createSurgeryOffline(c) == queueForSync(c, "create", "surgery")

\* getPendingSyncItems at the head of a run: an empty queue ends the run
RunFrom(items) ==
  IF Len(items) = 0 THEN NoCall ELSE [pc |-> "insert", items |-> items, i |-> 1]

\* a run of syncPending started by the interval timer or by "sync now"
syncPending(c, r) ==
  /\ call[r] = NoCall
  /\ view[c].online
  /\ call' = [call EXCEPT ![r] = RunFrom(pendingSync(c))]
  /\ UNCHANGED <<revision, surgeries, slots, notifications, view, drops, probeVars>>

\* the online event starts a run of its own
handleOnline(c) ==
  /\ ~ view[c].online
  /\ view' = [view EXCEPT ![c] = [@ EXCEPT !.online = TRUE]]
  /\ call' = IF call["event"] = NoCall
               THEN [call EXCEPT !["event"] = RunFrom(pendingSync(c))]
               ELSE call
  /\ UNCHANGED <<revision, surgeries, slots, notifications, drops, probeVars>>

handleOffline(c) ==
  /\ view[c].online
  /\ view' = [view EXCEPT ![c] = [@ EXCEPT !.online = FALSE]]
  /\ UNCHANGED <<revision, surgeries, slots, notifications, call, drops, probeVars>>

\* the item a run is working on
CurrentItem(r) == call[r].items[call[r].i]

\* the run moves to the next item of its list, or ends
Advance(r) ==
  IF call[r].i = Len(call[r].items)
    THEN NoCall
    ELSE [call[r] EXCEPT !.i = @ + 1, !.pc = "insert"]

\* an insert that takes a row whose id is already in the table
RemoteAccepts_anyId(id, table) == TRUE

\* surgeries.id is the primary key: a second row with the id is refused
RemoteAccepts(id, table) == \A k \in DOMAIN table : table[k].id # id

\* the body of the loop up to the insert: only { create, surgery } items
\* are sent; an error or an item of another kind moves on to the next item
syncPending_insert(c, r, ok) ==
  /\ call[r] # NoCall
  /\ call[r].pc = "insert"
  /\ LET item == CurrentItem(r)
         sent == item.type = "create" /\ item.entity = "surgery"
         done == /\ sent
                 /\ ok
                 /\ view[c].online
                 /\ RemoteAccepts(item.entityId, surgeries)
     IN  /\ surgeries' = IF done
                           THEN Append(surgeries, ApprovedSurgery(item.entityId))
                           ELSE surgeries
         /\ call' = [call EXCEPT ![r] =
                       IF done THEN [@ EXCEPT !.pc = "remove"] ELSE Advance(r)]
  /\ UNCHANGED <<revision, slots, notifications, view, drops, probeVars>>

\* removeSyncedItem after an insert without error
syncPending_remove(c, r) ==
  /\ call[r] # NoCall
  /\ call[r].pc = "remove"
  /\ view' = [view EXCEPT ![c] =
                [@ EXCEPT !.pendingSync =
                   SelectSeq(@, LAMBDA it : it.id # CurrentItem(r).id)]]
  /\ call' = [call EXCEPT ![r] = Advance(r)]
  /\ UNCHANGED <<revision, surgeries, slots, notifications, drops, probeVars>>

InitSync ==
  /\ revision = "app/actions/surgery.ts"
  /\ surgeries = <<>>
  /\ slots = <<>>
  /\ notifications = {}
  /\ view = [c \in OfflineClients |->
               [pendingSync |-> <<>>, nextKey |-> 1, online |-> FALSE]]
  /\ call = [r \in SyncRuns |-> NoCall]
  /\ drops = 0
  /\ args = Pending
  /\ result = Pending

NextSync ==
  \/ \E c \in Clients : createSurgeryOffline(c)
  \/ \E c \in Clients, type \in SyncTypes, entity \in SyncEntities :
       queueForSync(c, type, entity)
  \/ \E c \in Clients : syncPending(c, "interval")
  \/ \E c \in Clients : handleOnline(c)
  \/ \E c \in Clients : handleOffline(c)
  \/ \E c \in Clients, r \in SyncRuns, ok \in BOOLEAN : syncPending_insert(c, r, ok)
  \/ \E c \in Clients, r \in SyncRuns : syncPending_remove(c, r)

SpecSync == InitSync /\ [][NextSync]_vars

\* the timer keeps firing while the client is online, a run that has
\* started goes on, and an insert that is tried again and again for an
\* item succeeds at some time
FairSync ==
  /\ \A c \in OfflineClients : WF_vars(syncPending(c, "interval"))
  /\ \A c \in OfflineClients, r \in SyncRuns :
       /\ WF_vars(\E ok \in BOOLEAN : syncPending_insert(c, r, ok))
       /\ WF_vars(syncPending_remove(c, r))
       /\ \A key \in 1..(MaxOffline + 1) :
            SF_vars(syncPending_insert(c, r, TRUE) /\ CurrentItem(r).id = key)

SpecSyncFair == InitSync /\ [][NextSync]_vars /\ FairSync

Online == \A c \in Clients : view[c].online
QueueEmpty == \A c \in Clients : pendingSync(c) = <<>>

\* C24: once the client stays online, the pending-sync queue becomes and
\* stays empty, whatever the type and the entity of the queued items.
C24_QueueEventuallyEmpty == <>[]Online => <>[]QueueEmpty

\* the keys of the items in the client's queue, and the ids of the remote rows
QueuedKeys(c) == {pendingSync(c)[k].id : k \in DOMAIN pendingSync(c)}
RemoteIds == {surgeries[k].id : k \in DOMAIN surgeries}

\* C29: an item that has left the queue has a remote row (it is removed
\* only after its insert returned without error, so an item whose insert
\* failed is still queued), and no queued creation has two remote rows,
\* also when two runs of syncPending overlap.
C29_RemovedOnlyWhenSyncedOnce ==
  /\ \A c \in Clients : \A key \in 1..(view[c].nextKey - 1) :
       key \notin QueuedKeys(c) => key \in RemoteIds
  /\ \A j, k \in DOMAIN surgeries : j # k => surgeries[j].id # surgeries[k].id

\* two runs work on the same queued creation: one has inserted the row and
\* is about to remove the item, the other is about to insert it again
C29_Witness ==
  /\ call["interval"].pc = "remove"
  /\ call["event"].pc = "insert"
  /\ CurrentItem("interval").id = CurrentItem("event").id
  /\ CurrentItem("event").type = "create"
  /\ CurrentItem("event").entity = "surgery"
  /\ CurrentItem("event").entityId \in RemoteIds

(***************************************************************************)
(* Further properties of findBestSlot (SpecScheduler)                      *)
(***************************************************************************)
\* the existing slots of the room findBestSlot returned
ReturnedRoomSlots ==
  SelectSeq(args.existingSlots, LAMBDA sl : sl.or_id = result.or.id)

\* C25: the occupation of a returned placement, from the start of its
\* setup margin to the end of its cleanup margin, intersects no existing
\* slot of the returned room.
C25_PaddedPlacementFree ==
  (Searched /\ result.found) =>
    \A k \in DOMAIN ReturnedRoomSlots :
       ~ (/\ ReturnedRoomSlots[k].start_time < result.end + CleanupMin
          /\ ReturnedRoomSlots[k].end_time > result.start - SetupMin)

\* a placement in a room whose two slots are given out of order, overlap
\* each other, and one of which starts before 07:00
C25_Witness ==
  /\ Searched /\ result.found
  /\ Len(ReturnedRoomSlots) = 2
  /\ ReturnedRoomSlots[1].start_time > ReturnedRoomSlots[2].start_time
  /\ ReturnedRoomSlots[2].start_time < DayStartHour * 60
  /\ ReturnedRoomSlots[2].end_time > ReturnedRoomSlots[1].start_time
  /\ ReturnedRoomSlots[2].end_time > ReturnedRoomSlots[1].end_time

\* the room-capability rule of checkConstraints, for a room of the list
CapabilityCompatible(room) ==
  \/ args.surgery.specialization_required = NoSpec
  \/ room.room_type = "general"
  \/ room.room_type = args.surgery.specialization_required
  \/ args.surgery.specialization_required \in room.capabilities

FindTotalMin == SetupMin + args.surgery.estimated_duration + CleanupMin
FindDayStart == args.startDate * 1440 + DayStartHour * 60
FindDayEnd == args.startDate * 1440 + DayEndHour * 60

SlotsOfRoom(room) ==
  SelectSeq(args.existingSlots, LAMBDA sl : sl.or_id = room.id)

\* the padded surgery fits at searchTime: inside the day and clear of the
\* room's slots
FreeAt(room, searchTime) ==
  /\ searchTime >= FindDayStart
  /\ searchTime + FindTotalMin <= FindDayEnd
  /\ \A k \in DOMAIN SlotsOfRoom(room) :
       ~ (/\ SlotsOfRoom(room)[k].start_time < searchTime + FindTotalMin
          /\ SlotsOfRoom(room)[k].end_time > searchTime)

\* the times at which a gap can begin: the start of the day and the ends
\* of the room's slots
GapStarts(room) ==
  {t \in {FindDayStart} \cup
         {SlotsOfRoom(room)[k].end_time : k \in DOMAIN SlotsOfRoom(room)} :
     FreeAt(room, t)}

\* the positions of the rooms that are compatible and have a gap
FeasibleRooms ==
  {r \in DOMAIN args.rooms :
     CapabilityCompatible(args.rooms[r]) /\ GapStarts(args.rooms[r]) # {}}

Least(S) == CHOOSE x \in S : \A y \in S : x <= y

\* C26: findBestSlot returns the earliest gap of the first room of the
\* list that passes the room-capability rule of checkConstraints and has a
\* gap within the day, and returns nothing only when there is no such room.
C26_FirstFitOverCompatibleRooms ==
  Searched =>
    IF FeasibleRooms = {}
      THEN ~ result.found
      ELSE /\ result.found
           /\ result.or = args.rooms[Least(FeasibleRooms)]
           /\ result.start =
                Least(GapStarts(args.rooms[Least(FeasibleRooms)])) + SetupMin

(***************************************************************************)
(* SpecMove: a browser moves the scheduled surgery of the seed, with the   *)
(* priority queue open next to the schedule                                *)
(***************************************************************************)
InitMove ==
  /\ revision \in Revisions
  /\ surgeries = [id \in SurgeryIds |->
                    IF id = 1 THEN ScheduledSurgery(id) ELSE ApprovedSurgery(id)]
  /\ slots = SeedSlots(1)
  /\ notifications = {}
  /\ view = [c \in NotifyBrowsers |-> PageProps(slots, surgeries)]
  /\ call = [c \in NotifyBrowsers |-> NoCall]
  /\ drops = 0
  /\ args = Pending
  /\ result = Pending

NextMove ==
  \/ \E c \in Clients : Refresh(c)
  \/ \E c \in Clients, id \in SurgeryIds, fromSlot \in BOOLEAN,
        orId \in RoomIds, hour \in DropHours :
       handleDrop(c, id, fromSlot, orId, hour)
  \/ \E c \in Clients, user \in Users, ok \in BOOLEAN :
       scheduleSurgery_update(c, user, ok)
  \/ \E c \in Clients, ok \in BOOLEAN : scheduleSurgery_delete(c, ok)
  \/ \E c \in Clients, ok \in BOOLEAN, okNotify \in BOOLEAN :
       scheduleSurgery_insert(c, ok, okNotify)
  \/ \E id \in SurgeryIds, user \in Users, ok \in BOOLEAN :
       handleEscalate(id, user, ok)

SpecMove == InitMove /\ [][NextMove]_vars

\* the surgery is rendered with slots of its own, and the window passes
\* checkConstraints against the rendered slots without them
MovePasses(c, id, orId, hour) ==
  /\ SlotsOf(id, view[c].slots) # <<>>
  /\ ~ checkConstraints(NewSurgery(id), RoomById(orId), hour * 60,
                        hour * 60 + NewSurgery(id).estimated_duration,
                        SlotsNotOf(id, view[c].slots), NoSurgeon, <<>>).hasConflict

\* C27: a surgery that has slots, dragged from its timeline block or from
\* the unscheduled list to a window that conflicts with nothing but its own
\* slots, is accepted by the validation of the drop, and after the
\* placement its slots are the three new ones only.
C27_MoveIgnoresOwnSlots ==
  [][/\ \A c \in Clients, id \in SurgeryIds, fromSlot \in BOOLEAN,
           orId \in RoomIds, hour \in DropHours :
          (id \in Draggable(c, fromSlot) /\ MovePasses(c, id, orId, hour))
            => ~ DropCheck(c, id, fromSlot, orId, hour).hasConflict
     /\ \A c \in Clients :
          Inserts(c) =>
            SlotsOf(call[c].surgeryId, slots') =
              NewSlots(call[c].surgeryId, call[c].orId,
                       call[c].startTime, call[c].endTime)]_vars

(***************************************************************************)
(* SpecDuration: a browser places a surgery of 60 minutes and one whose    *)
(* duration was entered as -30                                             *)
(***************************************************************************)
DurationIds == {2, 6}

InitDuration ==
  /\ revision \in Revisions
  /\ surgeries = [id \in DurationIds |-> ApprovedSurgery(id)]
  /\ slots = <<>>
  /\ notifications = {}
  /\ view = [c \in NotifyBrowsers |-> PageProps(slots, surgeries)]
  /\ call = [c \in NotifyBrowsers |-> NoCall]
  /\ drops = 0
  /\ args = Pending
  /\ result = Pending

NextDuration ==
  \/ \E c \in Clients : Refresh(c)
  \/ \E c \in Clients, id \in DurationIds, fromSlot \in BOOLEAN,
        orId \in RoomIds, hour \in DropHours :
       handleDrop(c, id, fromSlot, orId, hour)
  \/ \E c \in Clients, user \in Users, ok \in BOOLEAN :
       scheduleSurgery_update(c, user, ok)
  \/ \E c \in Clients, ok \in BOOLEAN : scheduleSurgery_delete(c, ok)
  \/ \E c \in Clients, ok \in BOOLEAN, okNotify \in BOOLEAN :
       scheduleSurgery_insert(c, ok, okNotify)

SpecDuration == InitDuration /\ [][NextDuration]_vars

\* the rows a step has added to the table
Created == {row \in Range(slots') : row \notin Range(slots)}

\* C28: the slots a placement creates have start_time < end_time and are
\* contiguous (the setup slot ends where the surgery slot starts, the
\* cleanup slot starts where it ends), and the surgery's scheduled_start
\* lies before its scheduled_end.
C28_SlotsWellFormed ==
  [][\A c \in Clients :
       (Inserts(c) /\ Created # {}) =>
         /\ \A row \in Created : row.start_time < row.end_time
         /\ \E su, sg, cl \in Created :
              /\ su.slot_type = "setup"
              /\ sg.slot_type = "surgery"
              /\ cl.slot_type = "cleanup"
              /\ su.end_time = sg.start_time
              /\ sg.end_time = cl.start_time
         /\ surgeries'[call[c].surgeryId].scheduled_start
              < surgeries'[call[c].surgeryId].scheduled_end]_vars

(***************************************************************************)
(* SpecQueuePage: the priority-queue page over the surgeries of a facility *)
(***************************************************************************)
\* pageSize: 50 of the three queries of the page
QueuePageSize == 50

\* .order("created_at", { ascending: false }): rows[j] comes before rows[i]
\* when it is newer, or as new and earlier in the table
NewerBefore(rows, j, i) ==
  \/ rows[j].created_at > rows[i].created_at
  \/ /\ rows[j].created_at = rows[i].created_at
     /\ j < i

NewestFirst(rows) ==
  [p \in 1..Len(rows) |->
     rows[CHOOSE i \in 1..Len(rows) :
            Cardinality({j \in 1..Len(rows) : NewerBefore(rows, j, i)}) = p - 1]]

\* getSurgeries(hospitalId, { priority, pageSize }): the first page of the
\* facility's surgeries of that priority, newest first, whatever their status
getSurgeries(table, priority, pageSize) ==
  LET matching == NewestFirst(SelectSeq(table, LAMBDA row : row.priority = priority))
  IN  SubSeq(matching, 1, Min(pageSize, Len(matching)))

\* the page: one query and one column for each tier
PriorityQueuePage(table, now) ==
  [tier \in Priorities |->
     QueueColumn(getSurgeries(table, tier, QueuePageSize), now)]

\* the numbers of surgeries of the probed tier, around the page size
TierSizes == {1, 2, 49, 50, 51, 52}

OtherTier(tier) == IF tier = "emergency" THEN "urgent" ELSE "emergency"

\* a facility with n surgeries of one tier, created an hour apart (row 1 is
\* the oldest), and two surgeries of another tier
QueueTable(tier, n, oldest, newest) ==
  [k \in 1..(n + 2) |->
     [id |-> k,
      priority |-> IF k <= n THEN tier ELSE OtherTier(tier),
      status |-> IF k = 1 THEN oldest
                 ELSE IF k = n THEN newest
                 ELSE IF k = n + 2 THEN "completed"
                 ELSE "pending",
      created_at |-> 60 * k]]

QueuePageArg(table) ==
  [fn |-> "PriorityQueuePage", surgeries |-> table, now |-> Now]

CallPriorityQueuePage ==
  /\ args.fn = "PriorityQueuePage"
  /\ result = Pending
  /\ result' = [columns |-> PriorityQueuePage(args.surgeries, args.now)]
  /\ UNCHANGED <<args, orchVars>>

InitQueuePage ==
  /\ revision = "app/actions/surgery.ts"
  /\ surgeries = <<>>
  /\ slots = <<>>
  /\ notifications = {}
  /\ view = <<>>
  /\ call = <<>>
  /\ drops = 0
  /\ \E tier \in Priorities, n \in TierSizes,
        oldest \in QueueStatuses, newest \in QueueStatuses :
       args = QueuePageArg(QueueTable(tier, n, oldest, newest))
  /\ result = Pending

NextQueuePage == CallPriorityQueuePage

SpecQueuePage == InitQueuePage /\ [][NextQueuePage]_vars

\* the active surgeries of the facility
ActiveRows ==
  {k \in DOMAIN args.surgeries :
     args.surgeries[k].status \notin {"completed", "cancelled"}}

\* the positions of a column that show the surgery
PositionsOf(id, tier) ==
  {i \in DOMAIN result.columns[tier] : result.columns[tier][i].id = id}

\* C30: every active surgery of the facility is shown exactly once, in the
\* column of its priority, and the first entry of a column is an active
\* surgery of that tier that has waited longest.
C30_EveryActiveSurgeryShown ==
  result # Pending =>
    \A k \in ActiveRows :
       /\ \A tier \in Priorities :
            Cardinality(PositionsOf(args.surgeries[k].id, tier))
              = IF tier = args.surgeries[k].priority THEN 1 ELSE 0
       /\ (\A j \in ActiveRows :
             args.surgeries[j].priority = args.surgeries[k].priority
               => getWaitHours(args.surgeries[j].created_at, args.now)
                    <= getWaitHours(args.surgeries[k].created_at, args.now))
            => getWaitHours(args.surgeries[k].created_at, args.now)
                 = result.columns[args.surgeries[k].priority][1].waitHours

====
